---- MODULE Spec2Model ----
(***************************************************************************)
(* Account hierarchy of ncountr: the path functions of api::account and    *)
(* the record-backed operations of datastores::sqlite::account, modelled   *)
(* over the rows of the `account` table.                                   *)
(*                                                                         *)
(* A std::wstring / QString is a sequence of one-character strings.  An    *)
(* optional column value is <<>> (SQL NULL / boost::none) or <<v>>.        *)
(***************************************************************************)
EXTENDS Integers, Sequences, FiniteSets, TLC

\* ------------------------------------------------------------------ bounds
\* largest record id the model lets make_new allocate
MaxId == 3
\* deepest full_path (in segments) the model lets an operation write
MaxDepth == 3
\* number of calls made on the store in one run
MaxCalls == 4
\* longest input string handed to the pure path functions
MaxStrLen == 4
\* number of document files the user can select
MaxFiles == 2

\* ------------------------------------------------------- program constants
\* enum class type_t
asset == 0
liability == 1
income == 2
expense == 3
type_t == {asset, liability, income, expense}

\* a null account_spr
nullptr == 0

\* const std::wstring account::account_path_separator = L"/"
account_path_separator == <<"/">>

\* ------------------------------------------------------------- input sets
\* characters of the strings the model enumerates
Chars == {"a", "A", "/"}

\* The strings and types a run hands to the operations are those of one of
\* these alphabets, fixed when the run starts:
\*   "case"  - names that differ only in letter case, and a name with the
\*             separator in it; one account type
\*   "empty" - the empty name next to a non-empty one; one account type
\*   "emptytypes" - the empty name; one account type of each group
\*   "types" - one name, every account type
Alphabets ==
    {[id |-> "case",
      names |-> {<<"a">>, <<"A">>, <<"a", "/", "A">>},
      types |-> {asset}],
     [id |-> "empty",
      names |-> {<<>>, <<"a">>},
      types |-> {asset}],
     [id |-> "emptytypes",
      names |-> {<<>>},
      types |-> {asset, income}],
     [id |-> "types",
      names |-> {<<"a">>},
      types |-> type_t]}

\* opening dates (Julian day numbers) and opening balances
DateInputs == {1}
BalanceInputs == {0}

None == <<>>
Some(v) == <<v>>

\* optional descriptions handed to make_new
DescriptionInputs == {Some(<<"d">>)}

\* ------------------------------------------------- api::account (pure part)

\* position of the first occurrence of `sub` in `s` at or after `from`,
\* 0 for npos (std::wstring::find)
StrFind(s, sub, from) ==
    LET hits == {i \in from..(Len(s) - Len(sub) + 1) :
                    SubSeq(s, i, i + Len(sub) - 1) = sub}
    IN  IF hits = {} THEN 0
        ELSE CHOOSE i \in hits : \A j \in hits : i <= j

\* account::valid_name
valid_name(n) == StrFind(n, account_path_separator, 1) = 0

\* boost::algorithm::is_any_of(account_path_separator)
is_any_of_separator(c) ==
    \E i \in 1..Len(account_path_separator) : account_path_separator[i] = c

RECURSIVE SplitFrom(_, _, _)
\* boost::split with token_compress_off: every separator character ends a
\* token, empty tokens are kept
SplitFrom(p, i, tok) ==
    IF i > Len(p) THEN <<tok>>
    ELSE IF is_any_of_separator(p[i])
         THEN <<tok>> \o SplitFrom(p, i + 1, <<>>)
         ELSE SplitFrom(p, i + 1, Append(tok, p[i]))

RECURSIVE SplitCompressFrom(_, _, _)
SplitCompressFrom(p, i, tok) ==
    IF i > Len(p) THEN <<tok>>
    ELSE IF is_any_of_separator(p[i])
         THEN IF i > 1 /\ is_any_of_separator(p[i - 1])
              THEN SplitCompressFrom(p, i + 1, <<>>)
              ELSE <<tok>> \o SplitCompressFrom(p, i + 1, <<>>)
         ELSE SplitCompressFrom(p, i + 1, Append(tok, p[i]))

\* split_path as it would be with token_compress_on: a run of separators
\* ends one token only
split_path_compress(p) == SplitCompressFrom(p, 1, <<>>)

\* account::split_path
split_path(p) == SplitFrom(p, 1, <<>>)

RECURSIVE concatenate_path(_)
\* account::concatenate_path (boost::algorithm::join)
concatenate_path(v) ==
    IF v = <<>> THEN <<>>
    ELSE IF Len(v) = 1 THEN v[1]
    ELSE v[1] \o account_path_separator \o concatenate_path(Tail(v))

\* compatible_parent_child_types as it would be if only a balance parent
\* were checked against its child
compatible_parent_child_types_balance(t1, t2) ==
    IF (t1 = asset) \/ (t1 = liability)
    THEN IF (t2 = asset) \/ (t2 = liability) THEN TRUE ELSE FALSE
    ELSE TRUE

\* account::compatible_parent_child_types
compatible_parent_child_types(t1, t2) ==
    IF (t1 = asset) \/ (t1 = liability)
    THEN IF (t2 = asset) \/ (t2 = liability) THEN TRUE ELSE FALSE
    ELSE IF (t2 = asset) \/ (t2 = liability) THEN FALSE ELSE TRUE

\* ------------------------------------------- sqlite::account (record store)
\* A table is a function from the ids of its rows to the rows
\*   [full_path, description, account_type, opening_date, opening_balance]
\* (account::initialise, CREATE TABLE account).

\* account::to_qstring
to_qstring(t) ==
    CASE t = asset -> "asset"
      [] t = liability -> "liability"
      [] t = income -> "income"
      [] t = expense -> "expense"

\* account::to_account_type
to_account_type(str) ==
    IF str = "asset" THEN asset
    ELSE IF str = "liability" THEN liability
    ELSE IF str = "income" THEN income
    ELSE expense

\* SQLite folds the ASCII letters of both operands of LIKE (here: the
\* letters of Chars)
LikeFold(c) == IF c = "A" THEN "a" ELSE c

RECURSIVE LikeMatch(_, _)
\* SQLite `str LIKE pat`: % matches any run of characters, _ any one
\* character, letters match without regard to case
LikeMatch(pat, str) ==
    IF pat = <<>> THEN str = <<>>
    ELSE IF Head(pat) = "%"
         THEN LikeMatch(Tail(pat), str)
              \/ (str # <<>> /\ LikeMatch(pat, Tail(str)))
         ELSE /\ str # <<>>
              /\ (Head(pat) = "_" \/ LikeFold(Head(pat)) = LikeFold(Head(str)))
              /\ LikeMatch(Tail(pat), Tail(str))

\* find_by_full_path as it would be if it compared with LIKE
find_by_full_path_like(accs, path) ==
    {i \in DOMAIN accs : LikeMatch(path, accs[i].full_path)}

\* account::find_by_full_path: the rows with full_path = :full_path
find_by_full_path(accs, path) ==
    {i \in DOMAIN accs : accs[i].full_path = path}

\* account::find_existing: the id the returned handle carries, nullptr when
\* there is no such row
find_existing(accs, path) ==
    LET rows == find_by_full_path(accs, path)
    IN  IF rows = {} THEN nullptr
        ELSE CHOOSE i \in rows : \A j \in rows : i <= j

\* account::is_ready for a handle with the m_id `m`; m_db.isOpen() holds
\* in every state of the model
is_ready(m) == m > 0

\* account::full_path
full_path(accs, id) == accs[id].full_path

\* account::account_type
account_type(accs, id) == to_account_type(accs[id].account_type)

\* account::name
name(accs, id) ==
    LET full_path_v == split_path(full_path(accs, id))
    IN  full_path_v[Len(full_path_v)]

\* account::parent_path
parent_path(accs, id) ==
    LET full_path_v == split_path(full_path(accs, id))
    IN  IF Len(full_path_v) = 1 THEN <<>>
        ELSE concatenate_path(SubSeq(full_path_v, 1, Len(full_path_v) - 1))

\* account::descendants_sqlite: full_path LIKE '<full_path>/%', each row
\* turned into a handle by find_existing
descendants_sqlite(accs, id) ==
    LET pat == full_path(accs, id) \o account_path_separator \o <<"%">>
        rows == {i \in DOMAIN accs : LikeMatch(pat, accs[i].full_path)}
    IN  {find_existing(accs, accs[i].full_path) : i \in rows}

\* children_sqlite as it would be if it kept every row the LIKE selects
children_sqlite_like(accs, id) == descendants_sqlite(accs, id)

\* account::children_sqlite
children_sqlite(accs, id) ==
    LET fp == full_path(accs, id)
    IN  {d \in descendants_sqlite(accs, id) : parent_path(accs, d) = fp}

\* max_id as it would be if it counted the rows (SELECT COUNT(id))
max_id_count(accs) == Cardinality(DOMAIN accs)

\* account::max_id: SELECT MAX(id), 0 when the table is empty
max_id(accs) ==
    IF DOMAIN accs = {} THEN 0
    ELSE CHOOSE i \in DOMAIN accs : \A j \in DOMAIN accs : j <= i

\* the table with the row `id` added or replaced
PutRow(accs, id, row) ==
    [i \in (DOMAIN accs) \cup {id} |-> IF i = id THEN row ELSE accs[i]]

\* account::create_record (both overloads; the first leaves the opening
\* columns at their DEFAULT NULL).  The INSERT is written without the UNIQUE
\* constraint on full_path: C1 shows that no write ever reaches it.
create_record(accs, id, fp, description, t, od, ob) ==
    PutRow(accs, id,
        [full_path |-> fp, description |-> description,
         account_type |-> to_qstring(t),
         opening_date |-> od, opening_balance |-> ob])

\* destroy_record_by_id as it would be if the DELETE matched no row
destroy_record_by_id_none(accs, id) == accs

\* account::destroy_record_by_id
destroy_record_by_id(accs, id) == [i \in (DOMAIN accs) \ {id} |-> accs[i]]

\* updateSingleRecordFieldValue(m_db, "account", field, value, "id = <id>")
updateSingleRecordFieldValue(accs, id, field, value) ==
    [accs EXCEPT ![id] = [@ EXCEPT ![field] = value]]

\* what a call leaves behind: the table and the error it raised ("none"
\* when it returned)
Outcome(accs, err) == [accs |-> accs, err |-> err]

\* ------------------------------------------------ sqlite::account operations

\* NewFullPath as it would be if the parent's path were left out
NewFullPath_name(accs, nm, parent) == nm

\* the full path make_new gives a new account under `parent`
NewFullPath(accs, nm, parent) ==
    IF parent # nullptr
    THEN concatenate_path(Append(split_path(full_path(accs, parent)), nm))
    ELSE nm

\* make_new as it would be without the look-up of the new full path
make_new_unchecked(accs, nm, t, parent, description, od, ob) ==
    IF ~valid_name(nm) THEN Outcome(accs, "invalid_name")
    ELSE IF parent # nullptr
            /\ ~compatible_parent_child_types(account_type(accs, parent), t)
    THEN Outcome(accs, "incompatible")
    ELSE Outcome(
            create_record(accs, max_id(accs) + 1,
                NewFullPath(accs, nm, parent), description, t, od, ob),
            "none")

\* account::make_new, both overloads: (od, ob) are <<>> in the overload for
\* income and expense accounts
make_new(accs, nm, t, parent, description, od, ob) ==
    IF ~valid_name(nm) THEN Outcome(accs, "invalid_name")
    ELSE IF parent # nullptr
            /\ ~compatible_parent_child_types(account_type(accs, parent), t)
    THEN Outcome(accs, "incompatible")
    ELSE IF find_by_full_path(accs, NewFullPath(accs, nm, parent)) # {}
    THEN Outcome(accs, "duplicate")
    ELSE Outcome(
            create_record(accs, max_id(accs) + 1,
                NewFullPath(accs, nm, parent), description, t, od, ob),
            "none")

\* account::destroy
destroy(accs, id) ==
    IF Cardinality(descendants_sqlite(accs, id)) > 0
    THEN Outcome(accs, "has_children")
    ELSE Outcome(destroy_record_by_id(accs, id), "none")

RECURSIVE set_full_path(_, _, _, _, _)
RECURSIVE UpdateChildren(_, _, _, _, _)

\* the loop as it would be if it ended after the first handle
UpdateChildren_first(accs, p, children, stack, failing) ==
    IF children = {} THEN {Outcome(accs, "none")}
    ELSE UNION {set_full_path(accs, child,
                    p \o account_path_separator \o name(accs, child),
                    stack, failing)
                : child \in children}

\* the loop of set_full_path over the handles in `children`, taken in any
\* order (the SELECT has no ORDER BY); an error raised by one child ends it
UpdateChildren(accs, p, children, stack, failing) ==
    IF children = {} THEN {Outcome(accs, "none")}
    ELSE UNION {
            UNION {
                IF o.err = "none"
                THEN UpdateChildren(o.accs, p, children \ {child}, stack,
                                    failing)
                ELSE {o}
                : o \in set_full_path(accs, child,
                            p \o account_path_separator \o name(accs, child),
                            stack, failing)}
            : child \in children}

\* path q is path p followed by the separator and something more
IsUnder(q, p) ==
    LET prefix == p \o account_path_separator
    IN  /\ Len(q) >= Len(prefix)
        /\ SubSeq(q, 1, Len(prefix)) = prefix

\* account::set_full_path: the set of outcomes the call can have.
\*   stack   - the handles whose set_full_path is on the call stack
\*   failing - the record store may refuse a write (prepareAndExecute
\*             throws); the call then ends with "write_failed"
\* A call on a handle that is on the stack already never finds its path
\* unchanged (the new path lies under the one its own frame wrote); once its
\* checks pass it calls the handles on the stack again, with longer paths,
\* and so on without end: "no_return" (a write that the store refuses in
\* one of those later frames is not followed).
set_full_path(accs, id, p, stack, failing) ==
    IF p = <<>> THEN {Outcome(accs, "empty_path")}
    ELSE IF full_path(accs, id) = p THEN {Outcome(accs, "none")}
    ELSE IF find_by_full_path(accs, p) # {} THEN {Outcome(accs, "duplicate")}
    ELSE
        LET v == split_path(p)
            nm == v[Len(v)]
            full_path_v == SubSeq(v, 1, Len(v) - 1)
            parent == find_existing(accs, concatenate_path(full_path_v))
        IN  IF full_path_v # <<>> /\ parent = nullptr
            THEN {Outcome(accs, "no_parent")}
            ELSE IF full_path_v # <<>>
                    /\ ~compatible_parent_child_types(
                            account_type(accs, parent), account_type(accs, id))
            THEN {Outcome(accs, "incompatible")}
            ELSE IF ~valid_name(nm) THEN {Outcome(accs, "invalid_name")}
            ELSE IF id \in stack THEN {Outcome(accs, "no_return")}
            ELSE (IF failing THEN {Outcome(accs, "write_failed")} ELSE {})
                 \cup UpdateChildren(
                        updateSingleRecordFieldValue(accs, id, "full_path", p),
                        p, children_sqlite(accs, id), stack \cup {id},
                        failing)

\* account::set_name
set_name(accs, id, n, failing) ==
    IF ~valid_name(n) THEN {Outcome(accs, "invalid_name")}
    ELSE
        LET full_path_v == split_path(full_path(accs, id))
            new_v == [full_path_v EXCEPT ![Len(full_path_v)] = n]
        IN  set_full_path(accs, id, concatenate_path(new_v), {}, failing)

\* account::set_parent.  parent->full_path() raises ("could not access
\* retrieved record") when the row of the parent handle is gone.
set_parent(accs, id, parent, failing) ==
    IF parent # nullptr /\ parent \notin DOMAIN accs
    THEN {Outcome(accs, "no_record")}
    ELSE
        LET new_full_path ==
                IF parent # nullptr
                THEN concatenate_path(
                        Append(split_path(full_path(accs, parent)),
                               name(accs, id)))
                ELSE name(accs, id)
        IN  set_full_path(accs, id, new_full_path, {}, failing)

\* the checks both overloads of set_account_type make before they write:
\* the error they raise, "none" when they pass
TypeChecks(accs, id, t) ==
    LET parent == find_existing(accs, parent_path(accs, id))
    IN  IF parent # nullptr
           /\ ~compatible_parent_child_types(account_type(accs, parent), t)
        THEN "incompatible"
        ELSE IF \E child \in children_sqlite(accs, id) :
                    ~compatible_parent_child_types(t,
                        account_type(accs, child))
        THEN "incompatible"
        ELSE "none"

\* account::set_account_type(type_t), for income and expense
set_account_type(accs, id, t) ==
    IF TypeChecks(accs, id, t) # "none"
    THEN Outcome(accs, TypeChecks(accs, id, t))
    ELSE Outcome(
            updateSingleRecordFieldValue(accs, id, "account_type",
                to_qstring(t)),
            "none")

\* account::set_opening_date
set_opening_date(accs, id, od) ==
    updateSingleRecordFieldValue(accs, id, "opening_date", Some(od))

\* account::set_opening_balance
set_opening_balance(accs, id, ob) ==
    updateSingleRecordFieldValue(accs, id, "opening_balance", Some(ob))

\* account::set_account_type(type_t, date, currency_t), for asset and
\* liability
set_account_type_opening(accs, id, t, opening_date, opening_balance) ==
    IF TypeChecks(accs, id, t) # "none"
    THEN Outcome(accs, TypeChecks(accs, id, t))
    ELSE Outcome(
            set_opening_balance(
                set_opening_date(
                    updateSingleRecordFieldValue(accs, id, "account_type",
                        to_qstring(t)),
                    id, opening_date),
                id, opening_balance),
            "none")

\* ------------------------------------------------------------------- state
VARIABLES
    accounts,       \* the rows of the `account` table, by id
    everCreated,    \* history: the ids make_new has handed out so far
    last,           \* the last call: the operation, the id of the handle it
                    \* was made on (of the new row for make_new) and the
                    \* error it raised
    calls,          \* the number of calls made so far
    result,         \* the ids of the handles the last call returned in a
                    \* collection (children, descendants)
    m_id,           \* the m_id of the handle the last call was made on (of
                    \* the handle it returned for make_new and find_existing)
    m_db,           \* datastore::m_db: "open", or "none" when the open failed
    changed,        \* the ids of the records the last call wrote or deleted
    handles,        \* the account objects a caller holds: the m_id of
                    \* each and the account it was made for
    identity,       \* history: which account each row of the table holds
                    \* (the number of the call that created it)
    m_document,     \* MainWindow::m_document: the file of the open
                    \* document, NoDocument when it is null
    connections,    \* the files a datastore object holds a database
                    \* connection to
    fileExists,     \* which document files exist
    initialised,    \* history: how often datastore::initialise has run
                    \* on each file since the file was created
    pc,             \* the position in the file action that is running
    action,         \* the file action that is running or has run last
    events,         \* history: what that action has done so far
    m_currentMode,  \* TextFieldLineEdit::m_currentMode of each widget
    editEnabled,    \* m_editButton->isEnabled() of each widget
    m_accountTreeModel, \* MainWindow::m_accountTreeModel is not null
    arg,            \* the string handed to the pure path functions
    stage,          \* which of them has been applied to it
    validOut,       \* the result of valid_name(arg)
    splitOut,       \* the result of split_path(arg)
    joinOut,        \* the result of concatenate_path(splitOut)
    types,          \* the pair of types handed to
                    \* compatible_parent_child_types
    compatOut,      \* its result
    inputs          \* the alphabet the run draws its arguments from

storeVars ==
    <<accounts, everCreated, last, calls, result, m_id, m_db, changed>>
pathVars == <<arg, stage, validOut, splitOut, joinOut, types, compatOut>>
handleVars == <<handles, identity>>
guiVars ==
    <<m_document, connections, fileExists, initialised, pc, action, events,
      m_currentMode, editEnabled, m_accountTreeModel>>
vars ==
    <<accounts, everCreated, last, calls, result, m_id, m_db, changed,
      handles, identity, m_document, connections, fileExists, initialised,
      pc, action, events, m_currentMode, editEnabled, m_accountTreeModel,
      arg, stage, validOut, splitOut, joinOut, types, compatOut, inputs>>

\* the main window as it is constructed: no document, both widgets in
\* display mode with editing disabled (MainWindow::setupUi), no file
NoDocument == 0
Widgets == {"m_nameFew", "m_descriptionFew"}
NoWindow ==
    /\ m_document = NoDocument
    /\ connections = {}
    /\ fileExists = <<>>
    /\ initialised = <<>>
    /\ pc = "idle"
    /\ action = [name |-> "none", file |-> NoDocument, wasOpen |-> FALSE]
    /\ events = <<>>
    /\ m_currentMode = [w \in Widgets |-> "display"]
    /\ editEnabled = [w \in Widgets |-> FALSE]
    /\ m_accountTreeModel = FALSE

Call(op, id, err) == [op |-> op, id |-> id, err |-> err]

\* a freshly initialised database (datastore::initialise): no account rows
Init ==
    /\ accounts = <<>>
    /\ everCreated = {}
    /\ last = Call("none", nullptr, "none")
    /\ calls = 0
    /\ result = {}
    /\ changed = {}
    /\ handles = <<>>
    /\ identity = <<>>
    /\ NoWindow
    /\ m_id = nullptr
    /\ m_db = "open"
    /\ arg = <<>>
    /\ stage = "idle"
    /\ validOut = FALSE
    /\ splitOut = <<>>
    /\ joinOut = <<>>
    /\ types = <<asset, asset>>
    /\ compatOut = FALSE
    /\ inputs \in Alphabets

\* account names handed to make_new and set_name
NameInputs == inputs.names

\* account types handed to make_new and set_account_type
TypeInputs == inputs.types

\* full paths handed to set_full_path: the empty string, a name, or two
\* valid names joined by the separator
PathInputs ==
    {<<>>} \cup NameInputs
        \cup {concatenate_path(<<n1, n2>>) :
                n1, n2 \in {n \in NameInputs : valid_name(n)}}

\* the handles a caller can hold: one per stored row (find_existing)
Handles == DOMAIN accounts

\* the handles a caller can still hold to rows that have been destroyed
StaleHandles == everCreated \ DOMAIN accounts

\* every path of the table is within the bound
WithinBounds(accs) ==
    /\ DOMAIN accs \subseteq 1..MaxId
    /\ \A i \in DOMAIN accs : Len(split_path(accs[i].full_path)) <= MaxDepth

\* the ids of the records that differ between the tables a and b
Changed(a, b) ==
    {i \in DOMAIN a \cup DOMAIN b :
        i \notin DOMAIN a \/ i \notin DOMAIN b \/ a[i] # b[i]}

\* the outcome o of a cascade is within the bounds: every path it has
\* written is, unless the call does not return
StaysWithinBounds(o) ==
    \/ o.err = "no_return"
    \/ \A i \in Changed(accounts, o.accs) :
            Len(split_path(o.accs[i].full_path)) <= MaxDepth

\* the last call has returned or raised
Running == last.err \notin {"no_return", "aborted", "unchecked_access"}

\* the program is running and the database is open
Ready == Running /\ m_db = "open"

\* a call of make_new with outcome o
MakeNewStep(o) ==
    /\ Ready
    /\ calls < MaxCalls
    /\ WithinBounds(o.accs)
    /\ calls' = calls + 1
    /\ accounts' = o.accs
    /\ everCreated' = everCreated \cup ((DOMAIN o.accs) \ (DOMAIN accounts))
    /\ last' = Call("make_new",
                    IF o.err = "none" THEN max_id(accounts) + 1 ELSE nullptr,
                    o.err)
    /\ m_id' = last'.id
    /\ result' = {}
    /\ changed' = Changed(accounts, accounts')
    /\ UNCHANGED <<m_db, pathVars, inputs,
                   handleVars, guiVars>>

\* make_new(db, name, t, parent, description); the overload asserts that t
\* is income or expense
MakeNewFlow(nm, t, parent, description) ==
    /\ t \in {income, expense}
    /\ MakeNewStep(make_new(accounts, nm, t, parent, description, None, None))

\* make_new(db, name, t, parent, description, od, ob); the overload asserts
\* that t is asset or liability
MakeNewBalance(nm, t, parent, description, od, ob) ==
    /\ t \in {asset, liability}
    /\ MakeNewStep(make_new(accounts, nm, t, parent, description,
                            Some(od), Some(ob)))

\* a call on the handle `id` with outcome o, which leaves the handle with
\* the m_id `m`
HandleStepId(op, id, o, m) ==
    /\ Ready
    /\ calls < MaxCalls
    /\ calls' = calls + 1
    /\ accounts' = o.accs
    /\ last' = Call(op, id, o.err)
    /\ m_id' = m
    /\ result' = {}
    /\ changed' = Changed(accounts, accounts')
    /\ UNCHANGED <<everCreated, m_db, pathVars, inputs,
                   handleVars, guiVars>>

\* a call on the handle `id` with outcome o
HandleStep(op, id, o) == HandleStepId(op, id, o, id)

\* account::destroy on the handle `id`: m_id = 0 once the row is deleted
Destroy(id) ==
    LET o == destroy(accounts, id)
    IN  HandleStepId("destroy", id, o, IF o.err = "none" THEN 0 ELSE id)

\* a call whose cascade can end in several ways
CascadeStep(op, id, outs) ==
    /\ Ready
    /\ calls < MaxCalls
    /\ \A o \in outs : StaysWithinBounds(o)
    /\ \E o \in outs : HandleStep(op, id, o)

SetName(id, n) ==
    CascadeStep("set_name", id, set_name(accounts, id, n, FALSE))

SetParent(id, parent) ==
    CascadeStep("set_parent", id, set_parent(accounts, id, parent, FALSE))

SetFullPath(id, p) ==
    CascadeStep("set_full_path", id,
                set_full_path(accounts, id, p, {}, FALSE))

SetAccountTypeFlow(id, t) ==
    /\ t \in {income, expense}
    /\ HandleStep("set_account_type", id, set_account_type(accounts, id, t))

SetAccountTypeBalance(id, t, od, ob) ==
    /\ t \in {asset, liability}
    /\ HandleStep("set_account_type", id,
            set_account_type_opening(accounts, id, t, od, ob))

\* a call that reads the table and returns `id` (a handle or nullptr) and
\* the collection of handles `ids`
QueryStep(op, id, ids) ==
    /\ Ready
    /\ calls < MaxCalls
    /\ calls' = calls + 1
    /\ last' = Call(op, id, "none")
    /\ m_id' = id
    /\ result' = ids
    /\ changed' = {}
    /\ UNCHANGED <<accounts, everCreated, m_db, pathVars, inputs,
                   handleVars, guiVars>>

\* account::find_existing(db, p): `last.id` is the id of the returned handle
FindExisting(p) ==
    QueryStep("find_existing", find_existing(accounts, p), {})

\* account::children on the handle `id`
Children(id) == QueryStep("children", id, children_sqlite(accounts, id))

\* account::descendants on the handle `id`
Descendants(id) ==
    QueryStep("descendants", id, descendants_sqlite(accounts, id))

Next ==
    \/ \E nm \in NameInputs, t \in TypeInputs, parent \in Handles \cup {nullptr},
          d \in DescriptionInputs :
            MakeNewFlow(nm, t, parent, d)
    \/ \E nm \in NameInputs, t \in TypeInputs, parent \in Handles \cup {nullptr},
          d \in DescriptionInputs, od \in DateInputs, ob \in BalanceInputs :
            MakeNewBalance(nm, t, parent, d, od, ob)
    \/ \E id \in Handles : Destroy(id)
    \/ \E id \in Handles, n \in NameInputs : SetName(id, n)
    \/ \E id \in Handles, parent \in Handles \cup StaleHandles \cup {nullptr} :
            SetParent(id, parent)
    \/ \E id \in Handles, p \in PathInputs : SetFullPath(id, p)
    \/ \E id \in Handles, t \in TypeInputs : SetAccountTypeFlow(id, t)
    \/ \E id \in Handles, t \in TypeInputs, od \in DateInputs,
          ob \in BalanceInputs :
            SetAccountTypeBalance(id, t, od, ob)
    \/ \E p \in PathInputs : FindExisting(p)
    \/ \E id \in Handles : Children(id)
    \/ \E id \in Handles : Descendants(id)

Spec == Init /\ [][Next]_vars

\* ------------------------- the datastore and the older account interface
\* the columns of the table that account::initialise creates
TableColumns ==
    {"id", "full_path", "description", "account_type", "opening_date",
     "opening_balance"}

\* the results of *m_db on a datastore whose open failed (m_db is
\* boost::none): the assertion of boost::optional ends the process, or,
\* where assertions are compiled out, the missing connection is used
Dereference == {"aborted", "unchecked_access"}

\* the result of a datastore query: the handles it returns, or its error
Found(ids, err) == [ids |-> ids, err |-> err]

\* account::select with a where clause that compares `column` to `value`:
\* the statement cannot be prepared when the table has no such column
select(accs, column, value) ==
    IF column \notin TableColumns
    THEN Found({}, "query_preparation_error")
    ELSE Found({i \in DOMAIN accs : accs[i][column] = value}, "none")

\* datastore::find_account
find_account(db, accs, p) ==
    IF db = "none" THEN {Found({}, e) : e \in Dereference}
    ELSE LET id == find_existing(accs, p)
         IN  {Found(IF id = nullptr THEN {} ELSE {id}, "none")}

\* datastore::find_children_of(const_account_spr): the accounts whose
\* parent_id is that of `parent`, or is NULL when `parent` is nullptr
find_children_of_account(db, accs, parent) ==
    IF db = "none" THEN {Found({}, e) : e \in Dereference}
    ELSE {select(accs, "parent_id", parent)}

\* datastore::find_children_of(std::wstring)
find_children_of(db, accs, p) ==
    IF p = <<>> THEN find_children_of_account(db, accs, nullptr)
    ELSE UNION {
            IF parent_ac.err # "none" THEN {parent_ac}
            ELSE IF parent_ac.ids = {}
            THEN {Found({}, "does_not_exist")}
            ELSE UNION {find_children_of_account(db, accs, id)
                        : id \in parent_ac.ids}
            : parent_ac \in find_account(db, accs, p)}

\* account::set_running_balance_true (account.h)
set_running_balance_true(accs, id, od, ob) ==
    Outcome(accs, "not_implemented")

\* account::set_running_balance_false (account.h)
set_running_balance_false(accs, id) == Outcome(accs, "not_implemented")

\* a call on the datastore with result f
DatastoreStep(op, f) ==
    /\ Running
    /\ calls < MaxCalls
    /\ calls' = calls + 1
    /\ last' = Call(op, nullptr, f.err)
    /\ m_id' = nullptr
    /\ result' = f.ids
    /\ changed' = {}
    /\ UNCHANGED <<accounts, everCreated, m_db, pathVars, inputs,
                   handleVars, guiVars>>

FindAccount(p) ==
    \E f \in find_account(m_db, accounts, p) :
        DatastoreStep("find_account", f)

FindChildrenOf(p) ==
    \E f \in find_children_of(m_db, accounts, p) :
        DatastoreStep("find_children_of", f)

SetRunningBalanceTrue(id, od, ob) ==
    HandleStep("set_running_balance_true", id,
               set_running_balance_true(accounts, id, od, ob))

SetRunningBalanceFalse(id) ==
    HandleStep("set_running_balance_false", id,
               set_running_balance_false(accounts, id))

\* the datastore may have failed to open its database
InitDatastore ==
    /\ accounts = <<>>
    /\ everCreated = {}
    /\ last = Call("none", nullptr, "none")
    /\ calls = 0
    /\ result = {}
    /\ changed = {}
    /\ handles = <<>>
    /\ identity = <<>>
    /\ NoWindow
    /\ m_id = nullptr
    /\ m_db \in {"open", "none"}
    /\ arg = <<>>
    /\ stage = "idle"
    /\ validOut = FALSE
    /\ splitOut = <<>>
    /\ joinOut = <<>>
    /\ types = <<asset, asset>>
    /\ compatOut = FALSE
    /\ inputs \in {a \in Alphabets : a.id \in {"case", "types"}}

NextDatastore ==
    \/ \E nm \in NameInputs, t \in TypeInputs, parent \in Handles \cup {nullptr},
          d \in DescriptionInputs :
            MakeNewFlow(nm, t, parent, d)
    \/ \E nm \in NameInputs, t \in TypeInputs, parent \in Handles \cup {nullptr},
          d \in DescriptionInputs, od \in DateInputs, ob \in BalanceInputs :
            MakeNewBalance(nm, t, parent, d, od, ob)
    \/ \E p \in PathInputs : FindAccount(p)
    \/ \E p \in PathInputs : FindChildrenOf(p)
    \/ \E id \in Handles, od \in DateInputs, ob \in BalanceInputs :
            SetRunningBalanceTrue(id, od, ob)
    \/ \E id \in Handles : SetRunningBalanceFalse(id)

SpecDatastore == InitDatastore /\ [][NextDatastore]_vars

\* ------------------------------------- cascades on a store that may fail
\* account::set_name on a store that may refuse a write
SetNameFailing(id, n) ==
    CascadeStep("set_name", id, set_name(accounts, id, n, TRUE))

\* account::set_parent on a store that may refuse a write
SetParentFailing(id, parent) ==
    CascadeStep("set_parent", id, set_parent(accounts, id, parent, TRUE))

InitFaults ==
    /\ accounts = <<>>
    /\ everCreated = {}
    /\ last = Call("none", nullptr, "none")
    /\ calls = 0
    /\ result = {}
    /\ changed = {}
    /\ handles = <<>>
    /\ identity = <<>>
    /\ NoWindow
    /\ m_id = nullptr
    /\ m_db = "open"
    /\ arg = <<>>
    /\ stage = "idle"
    /\ validOut = FALSE
    /\ splitOut = <<>>
    /\ joinOut = <<>>
    /\ types = <<asset, asset>>
    /\ compatOut = FALSE
    /\ inputs \in {a \in Alphabets : a.id \in {"case", "empty"}}

NextFaults ==
    \/ \E nm \in NameInputs, t \in TypeInputs, parent \in Handles \cup {nullptr},
          d \in DescriptionInputs, od \in DateInputs, ob \in BalanceInputs :
            MakeNewBalance(nm, t, parent, d, od, ob)
    \/ \E id \in Handles, n \in NameInputs : SetNameFailing(id, n)
    \/ \E id \in Handles, parent \in Handles \cup {nullptr} :
            SetParentFailing(id, parent)

SpecFaults == InitFaults /\ [][NextFaults]_vars

\* ------------------------------------------- the pure path functions alone
RECURSIVE StringsOfLen(_)
StringsOfLen(n) ==
    IF n = 0 THEN {<<>>}
    ELSE {Append(s, c) : s \in StringsOfLen(n - 1), c \in Chars}

Strings == UNION {StringsOfLen(n) : n \in 0..MaxStrLen}

InitPath ==
    /\ accounts = <<>>
    /\ everCreated = {}
    /\ last = Call("none", nullptr, "none")
    /\ calls = 0
    /\ result = {}
    /\ changed = {}
    /\ handles = <<>>
    /\ identity = <<>>
    /\ NoWindow
    /\ m_id = nullptr
    /\ m_db = "open"
    /\ arg \in Strings
    /\ stage = "input"
    /\ validOut = FALSE
    /\ splitOut = <<>>
    /\ joinOut = <<>>
    /\ types \in type_t \X type_t
    /\ compatOut = FALSE
    /\ inputs \in {a \in Alphabets : a.id = "case"}

ValidName ==
    /\ stage = "input"
    /\ validOut' = valid_name(arg)
    /\ stage' = "valid_name"
    /\ UNCHANGED <<arg, splitOut, joinOut, types, compatOut, storeVars, inputs,
                   handleVars, guiVars>>

SplitPath ==
    /\ stage = "input"
    /\ splitOut' = split_path(arg)
    /\ stage' = "split_path"
    /\ UNCHANGED <<arg, validOut, joinOut, types, compatOut, storeVars, inputs,
                   handleVars, guiVars>>

ConcatenatePath ==
    /\ stage = "split_path"
    /\ joinOut' = concatenate_path(splitOut)
    /\ stage' = "concatenate_path"
    /\ UNCHANGED <<arg, validOut, splitOut, types, compatOut, storeVars, inputs,
                   handleVars, guiVars>>

CompatibleParentChildTypes ==
    /\ stage = "input"
    /\ compatOut' = compatible_parent_child_types(types[1], types[2])
    /\ stage' = "compatible_parent_child_types"
    /\ UNCHANGED <<arg, validOut, splitOut, joinOut, types, storeVars, inputs,
                   handleVars, guiVars>>

NextPath ==
    ValidName \/ SplitPath \/ ConcatenatePath \/ CompatibleParentChildTypes

SpecPath == InitPath /\ [][NextPath]_vars

\* ------------------------------------------------------------------ claims

\* the stored full paths
FullPaths(accs) == {accs[i].full_path : i \in DOMAIN accs}

\* the types that carry an opening date and balance
BalanceTypes == {"asset", "liability"}

\* C1: no two stored account records have the same full_path, after any
\* sequence of calls, whether they returned or raised.
C1_UniqueFullPath ==
    \A i, j \in DOMAIN accounts :
        i # j => accounts[i].full_path # accounts[j].full_path

\* C1 witness: a rename or a move was refused as a duplicate while several
\* accounts are stored.
C1_Witness ==
    /\ last.op \in {"set_name", "set_parent", "set_full_path"}
    /\ last.err = "duplicate"
    /\ Cardinality(DOMAIN accounts) >= 2

\* C2: after every call that returned, every account whose full_path has
\* more than one segment has a parent_path that is the full_path of a stored
\* account.
C2_NoOrphans ==
    last.err = "none" =>
        \A i \in DOMAIN accounts :
            Len(split_path(accounts[i].full_path)) > 1
                => parent_path(accounts, i) \in FullPaths(accounts)

\* C3: no account and its parent have types of different groups.
C3_CompatiblePairs ==
    \A i, j \in DOMAIN accounts :
        (/\ Len(split_path(accounts[i].full_path)) > 1
         /\ parent_path(accounts, i) = accounts[j].full_path)
            => (accounts[i].account_type \in BalanceTypes
                    <=> accounts[j].account_type \in BalanceTypes)

\* C4: a set_name that returned and changed the account's full_path from P
\* to P2 leaves every former descendant P/<rest> at P2/<rest> with the same
\* id, and leaves no account at P or under P.
C4_SetNameCascade ==
    [][(last'.op = "set_name" /\ last'.err = "none"
            /\ accounts'[last'.id].full_path # accounts[last'.id].full_path)
        => LET P == accounts[last'.id].full_path
               P2 == accounts'[last'.id].full_path
           IN  /\ \A j \in DOMAIN accounts :
                    IsUnder(accounts[j].full_path, P)
                        => /\ j \in DOMAIN accounts'
                           /\ accounts'[j].full_path =
                                P2 \o SubSeq(accounts[j].full_path,
                                        Len(P) + 1,
                                        Len(accounts[j].full_path))
               /\ \A j \in DOMAIN accounts' :
                    /\ accounts'[j].full_path # P
                    /\ ~IsUnder(accounts'[j].full_path, P)]_vars

\* C5: destroy raises exactly when some stored full_path is the account's
\* full_path followed by the separator and more; otherwise it deletes that
\* row and no other.
C5_DestroyGuard ==
    [][last'.op = "destroy"
        => LET id == last'.id
               guarded == \E j \in DOMAIN accounts :
                            IsUnder(accounts[j].full_path,
                                    accounts[id].full_path)
           IN  /\ (last'.err # "none") <=> guarded
               /\ last'.err = "none"
                    => accounts' = destroy_record_by_id(accounts, id)
               /\ last'.err # "none" => accounts' = accounts]_vars

\* C6: the id of a newly created account is none of the ids handed out
\* earlier, destroyed accounts included.
C6_IdNeverReused ==
    [][(last'.op = "make_new" /\ last'.err = "none")
        => last'.id \notin everCreated]_vars

\* C7: valid_name is false exactly for the empty string and for strings
\* that contain the separator.
C7_ValidName ==
    stage = "valid_name" =>
        (validOut = FALSE
            <=> (arg = <<>>
                 \/ \E i \in 1..Len(arg) : <<arg[i]>> = account_path_separator))

\* C8: every stored account has a non-empty name: no full_path is empty or
\* ends with the separator.
C8_NonEmptyName ==
    \A i \in DOMAIN accounts :
        /\ accounts[i].full_path # <<>>
        /\ <<accounts[i].full_path[Len(accounts[i].full_path)]>>
                # account_path_separator

\* C9: opening_date and opening_balance are non-null exactly for the
\* accounts of type asset or liability.
C9_OpeningIffBalance ==
    \A i \in DOMAIN accounts :
        /\ accounts[i].opening_date # None
                <=> accounts[i].account_type \in BalanceTypes
        /\ accounts[i].opening_balance # None
                <=> accounts[i].account_type \in BalanceTypes

\* C10: concatenate_path(split_path(p)) = p for every string p, and
\* split_path of the empty string is one empty segment.
C10_SplitJoinRoundTrip ==
    /\ stage = "concatenate_path" => joinOut = arg
    /\ (stage = "split_path" /\ arg = <<>>) => splitOut = << <<>> >>

\* C10 witness: a path with an empty middle segment has been split and
\* joined again.
C10_Witness ==
    /\ stage = "concatenate_path"
    /\ Len(splitOut) = 3
    /\ splitOut[2] = <<>>

\* the types with an opening balance, as against income and expense
BalanceGroup == {asset, liability}

\* C11: compatible_parent_child_types(t1, t2) is true exactly when t1 and
\* t2 are both asset or liability, or both income or expense; swapping the
\* arguments gives the same result, for each of the 16 pairs.
C11_CompatibleTypes ==
    stage = "compatible_parent_child_types" =>
        /\ compatOut = TRUE
                <=> (types[1] \in BalanceGroup <=> types[2] \in BalanceGroup)
        /\ compatOut = compatible_parent_child_types(types[2], types[1])

\* C11 witness: the function has refused an income parent for a liability
\* child.
C11_Witness ==
    /\ stage = "compatible_parent_child_types"
    /\ types = <<income, liability>>
    /\ compatOut = FALSE

\* C12: a look-up of a path that is the full_path of no stored account
\* returns nullptr, raises nothing and changes no record.
C12_LookupMiss ==
    [][last'.op = "find_existing"
        => \A p \in PathInputs :
            (p \notin FullPaths(accounts) /\ FindExisting(p))
                => /\ last'.id = nullptr
                   /\ last'.err = "none"
                   /\ accounts' = accounts]_vars

\* C12 witness: a look-up has returned nullptr while accounts are stored.
C12_Witness ==
    /\ last.op = "find_existing"
    /\ last.id = nullptr
    /\ Cardinality(DOMAIN accounts) >= 2

\* C13: children() of account a returns exactly the stored accounts whose
\* parent_path equals a's full_path.
C13_ChildrenExact ==
    [][last'.op = "children"
        => result' = {j \in DOMAIN accounts :
                        parent_path(accounts, j)
                            = accounts[last'.id].full_path}]_vars

\* C14: descendants() of account a returns exactly the stored accounts
\* whose full_path is a's full_path, the separator and at least one more
\* character.
C14_DescendantsExact ==
    [][last'.op = "descendants"
        => result' = {j \in DOMAIN accounts :
                        /\ IsUnder(accounts[j].full_path,
                                   accounts[last'.id].full_path)
                        /\ Len(accounts[j].full_path)
                                > Len(accounts[last'.id].full_path) + 1}]_vars

\* the full path the claims give an account `nm` under `parent`
ExpectedPath(accs, nm, parent) ==
    IF parent = nullptr THEN nm
    ELSE accs[parent].full_path \o account_path_separator \o nm

\* the step added the one row `new` with the given path, type and
\* description and left every other row as it was
AddsOneRecord(new, fp, t, d) ==
    /\ new \notin DOMAIN accounts
    /\ DOMAIN accounts' = (DOMAIN accounts) \cup {new}
    /\ accounts'[new].full_path = fp
    /\ accounts'[new].account_type = to_qstring(t)
    /\ accounts'[new].description = d
    /\ \A i \in DOMAIN accounts : accounts'[i] = accounts[i]

\* C15: a make_new that returned has added exactly one record, with the
\* full_path name (no parent) or parent's full_path + separator + name, the
\* type and description supplied and, for asset and liability, the opening
\* date and balance supplied; every other record is unchanged.
C15_MakeNewRecord ==
    [][(last'.op = "make_new" /\ last'.err = "none")
        => \A nm \in NameInputs, t \in TypeInputs,
              parent \in Handles \cup {nullptr}, d \in DescriptionInputs :
            /\ MakeNewFlow(nm, t, parent, d)
                => AddsOneRecord(last'.id,
                        ExpectedPath(accounts, nm, parent), t, d)
            /\ \A od \in DateInputs, ob \in BalanceInputs :
                MakeNewBalance(nm, t, parent, d, od, ob)
                    => /\ AddsOneRecord(last'.id,
                                ExpectedPath(accounts, nm, parent), t, d)
                       /\ accounts'[last'.id].opening_date = Some(od)
                       /\ accounts'[last'.id].opening_balance = Some(ob)]_vars

\* C15 witness: make_new has returned an account created under a parent,
\* which has a parent itself.
C15_Witness ==
    /\ last.op = "make_new"
    /\ last.err = "none"
    /\ Len(split_path(accounts[last.id].full_path)) = 3
    /\ Cardinality(DOMAIN accounts) = 3

\* a name the account rules refuse: empty, or with the separator in it
InvalidName(nm) ==
    nm = <<>> \/ \E i \in 1..Len(nm) : <<nm[i]>> = account_path_separator

\* C16: make_new raises when the name is invalid, when the parent's type
\* group differs from the new type's, or when the resulting full_path is
\* already stored; it then writes no record (records and max_id unchanged).
C16_MakeNewRefusal ==
    [][\A nm \in NameInputs, t \in TypeInputs,
          parent \in Handles \cup {nullptr}, d \in DescriptionInputs,
          od \in DateInputs, ob \in BalanceInputs :
        (/\ MakeNewFlow(nm, t, parent, d)
                \/ MakeNewBalance(nm, t, parent, d, od, ob)
         /\ \/ InvalidName(nm)
            \/ /\ parent # nullptr
               /\ (t \in BalanceGroup)
                    # (accounts[parent].account_type \in BalanceTypes)
            \/ ExpectedPath(accounts, nm, parent) \in FullPaths(accounts))
            => /\ last'.err # "none"
               /\ accounts' = accounts
               /\ max_id(accounts') = max_id(accounts)]_vars

\* the path q moved with its ancestor from P to P2
Rebased(q, P, P2) == P2 \o SubSeq(q, Len(P) + 1, Len(q))

\* C17: after a set_parent(p) that returned, the account's full_path is
\* p's full_path + separator + name (its name alone when p is null, and
\* its parent_path is then empty), its name and id are the same, and every
\* descendant is at the same relative position under the new full_path.
C17_SetParentMoves ==
    [][\A id \in Handles, parent \in Handles \cup {nullptr} :
        (SetParent(id, parent) /\ last'.err = "none")
            => LET P == accounts[id].full_path
                   P2 == accounts'[id].full_path
               IN  /\ id \in DOMAIN accounts'
                   /\ P2 = ExpectedPath(accounts', name(accounts, id), parent)
                   /\ parent = nullptr => parent_path(accounts', id) = <<>>
                   /\ name(accounts', id) = name(accounts, id)
                   /\ \A j \in DOMAIN accounts :
                        IsUnder(accounts[j].full_path, P)
                            => /\ j \in DOMAIN accounts'
                               /\ accounts'[j].full_path
                                    = Rebased(accounts[j].full_path, P, P2)]_vars

\* account j is another account beside account i: same parent_path, same
\* depth
Sibling(accs, j, i) ==
    /\ j # i
    /\ Len(split_path(accs[j].full_path)) = Len(split_path(accs[i].full_path))
    /\ parent_path(accs, j) = parent_path(accs, i)

\* C18: set_parent raises when the new parent's type group differs from
\* the account's, when the new parent is not in the store, or when another
\* account has the account's name under the new parent (at the root for a
\* null parent); set_name raises when the new name contains the separator
\* or is the name of a sibling.
C18_MoveRenameRefusal ==
    [][/\ \A id \in Handles,
             parent \in Handles \cup StaleHandles \cup {nullptr} :
            (/\ SetParent(id, parent)
             /\ \/ /\ parent \in DOMAIN accounts
                    /\ (accounts[parent].account_type \in BalanceTypes)
                        # (accounts[id].account_type \in BalanceTypes)
                \/ parent \in StaleHandles
                \/ /\ parent \notin StaleHandles
                   /\ \E j \in (DOMAIN accounts) \ {id} :
                        accounts[j].full_path
                            = ExpectedPath(accounts, name(accounts, id),
                                           parent))
                => last'.err # "none"
       /\ \A id \in Handles, n \in NameInputs :
            (/\ SetName(id, n)
             /\ \/ \E i \in 1..Len(n) : <<n[i]>> = account_path_separator
                \/ \E j \in DOMAIN accounts :
                        Sibling(accounts, j, id) /\ name(accounts, j) = n)
                => last'.err # "none"]_vars

\* the stored parent and the stored direct children of account i
ParentsOf(accs, i) ==
    {j \in DOMAIN accs :
        /\ Len(split_path(accs[i].full_path)) > 1
        /\ accs[j].full_path = parent_path(accs, i)}
ChildrenOf(accs, i) ==
    {j \in DOMAIN accs :
        /\ Len(split_path(accs[j].full_path)) > 1
        /\ parent_path(accs, j) = accs[i].full_path}

\* C19: set_account_type(t, ...) raises and leaves the record as it was
\* when t is of another group than the account's parent or than one of its
\* direct children; otherwise it returns and the stored type is t.
C19_SetTypeGuard ==
    [][\A id \in Handles, t \in TypeInputs, od \in DateInputs,
          ob \in BalanceInputs :
        (SetAccountTypeFlow(id, t) \/ SetAccountTypeBalance(id, t, od, ob))
            => IF \E j \in ParentsOf(accounts, id)
                        \cup ChildrenOf(accounts, id) :
                    (accounts[j].account_type \in BalanceTypes)
                        # (t \in BalanceGroup)
               THEN /\ last'.err # "none"
                    /\ accounts' = accounts
               ELSE /\ last'.err = "none"
                    /\ accounts'[id].account_type = to_qstring(t)]_vars

\* C20: a destroy that raised has changed no record and its handle is
\* still ready; after a destroy that returned the handle is not ready and
\* a look-up of the account's former full_path finds nothing.
C20_DestroyHandle ==
    [][last'.op = "destroy"
        => /\ last'.err # "none"
                => (accounts' = accounts /\ is_ready(m_id'))
           /\ last'.err = "none"
                => /\ ~is_ready(m_id')
                   /\ find_existing(accounts',
                            accounts[last'.id].full_path) = nullptr]_vars

\* C20 witness: a destroy has returned while another account is stored.
C20_Witness ==
    /\ last.op = "destroy"
    /\ last.err = "none"
    /\ m_id = 0
    /\ DOMAIN accounts # {}

\* C26: every call of set_name, set_parent and set_full_path returns or
\* raises: no call is left in a chain of set_full_path calls without end.
C26_CascadeTerminates == last.err # "no_return"

\* account::parent_sqlite
parent_sqlite(accs, id) ==
    LET pp == parent_path(accs, id)
    IN  IF pp = <<>> THEN nullptr ELSE find_existing(accs, pp)

RECURSIVE AncestorNames(_, _)
\* the names of the ancestors of account id, from the root to its parent,
\* as repeated calls of parent() and name() give them
AncestorNames(accs, id) ==
    LET parent == parent_sqlite(accs, id)
    IN  IF parent = nullptr THEN <<>>
        ELSE Append(AncestorNames(accs, parent), name(accs, parent))

\* C22: the full_path of every account is the names of its ancestors, from
\* the root down to its parent, followed by its own name and joined by the
\* separator; its name is the last segment of its full_path, its
\* parent_path the segments before the last, joined; an account without a
\* parent has the empty parent_path and its name for full_path; and the
\* look-up of its full_path finds the account itself.
C22_PathAccessors ==
    \A id \in Handles :
        LET v == split_path(full_path(accounts, id))
        IN  /\ full_path(accounts, id) =
                concatenate_path(Append(AncestorNames(accounts, id),
                                        name(accounts, id)))
            /\ name(accounts, id) = v[Len(v)]
            /\ parent_path(accounts, id) =
                concatenate_path(SubSeq(v, 1, Len(v) - 1))
            /\ parent_sqlite(accounts, id) = nullptr
                => /\ parent_path(accounts, id) = <<>>
                   /\ full_path(accounts, id) = name(accounts, id)
            /\ find_existing(accounts, full_path(accounts, id)) = id

\* C21: set_running_balance_true and set_running_balance_false return on an
\* account that has no parent and no child, and the record then carries
\* the opening data of the call (none after set_running_balance_false);
\* on an account that has a parent or a child they raise.
C21_RunningBalanceToggle ==
    [][last'.op \in {"set_running_balance_true", "set_running_balance_false"}
        => LET id == last'.id
           IN  IF ParentsOf(accounts, id) \cup ChildrenOf(accounts, id) = {}
               THEN /\ last'.err = "none"
                    /\ (accounts'[id].opening_date # None)
                            = (last'.op = "set_running_balance_true")
                    /\ (accounts'[id].opening_balance # None)
                            = (last'.op = "set_running_balance_true")
               ELSE last'.err # "none"]_vars

\* C23: on an open datastore find_children_of("") returns exactly the
\* accounts without a parent, find_children_of(p) for the full_path p of an
\* account returns exactly the children of that account, and
\* find_children_of(p) for any other p raises.
C23_FindChildrenOf ==
    [][(last'.op = "find_children_of" /\ m_db = "open")
        => \A p \in PathInputs :
            FindChildrenOf(p)
                => IF p = <<>>
                   THEN /\ last'.err = "none"
                        /\ result' = {i \in Handles :
                                        ParentsOf(accounts, i) = {}}
                   ELSE IF find_existing(accounts, p) # nullptr
                   THEN /\ last'.err = "none"
                        /\ result' = ChildrenOf(accounts,
                                            find_existing(accounts, p))
                   ELSE last'.err # "none"]_vars

\* C25: a call made while the database is not open ends in an error that
\* the call raised, not in a use of the missing connection, and leaves
\* every record as it was.
C25_StoreUnavailable ==
    [][m_db = "none"
        => /\ last'.err \notin {"none", "aborted", "unchecked_access"}
           /\ accounts' = accounts]_vars

\* every account of table a is in table b with the same id, full_path,
\* type and description, and b has no other account
SameAccounts(a, b) ==
    /\ DOMAIN a = DOMAIN b
    /\ \A i \in DOMAIN a :
        /\ a[i].full_path = b[i].full_path
        /\ a[i].account_type = b[i].account_type
        /\ a[i].description = b[i].description

\* C24: from every store, a set_name(n) that returns followed by a
\* set_name(original name) that returns, and a set_parent(q) that returns
\* followed by a set_parent(original parent) that returns, leave every
\* account with the id, full_path, type and description it had.
C24_Reversible ==
    \A id \in Handles :
        /\ \A n \in NameInputs :
            \A o1 \in set_name(accounts, id, n, FALSE) :
                o1.err = "none"
                    => \A o2 \in set_name(o1.accs, id, name(accounts, id),
                                          FALSE) :
                        o2.err = "none" => SameAccounts(accounts, o2.accs)
        /\ \A q \in Handles \cup {nullptr} :
            \A o1 \in set_parent(accounts, id, q, FALSE) :
                o1.err = "none"
                    => \A o2 \in set_parent(o1.accs, id,
                                    parent_sqlite(accounts, id), FALSE) :
                        o2.err = "none" => SameAccounts(accounts, o2.accs)

\* the cascade with the outcomes outs can have returned with the table
\* accs only if every order in which it returns ends with accs
OneResult(outs, accs) ==
    (\E o \in outs : o.err = "none" /\ o.accs = accs)
        => \A o \in outs : o.err = "none" => o.accs = accs

\* C27: when a set_name, set_parent or set_full_path has returned, the
\* table is the one that every order of rewriting the children (and their
\* subtrees) leads to in which the call returns.
C27_OrderIndependent ==
    [][last'.err = "none"
        => LET id == last'.id
           IN  /\ last'.op = "set_name"
                    => \A n \in NameInputs :
                        OneResult(set_name(accounts, id, n, FALSE), accounts')
               /\ last'.op = "set_parent"
                    => \A parent \in Handles \cup StaleHandles \cup {nullptr} :
                        OneResult(set_parent(accounts, id, parent, FALSE),
                                  accounts')
               /\ last'.op = "set_full_path"
                    => \A p \in PathInputs :
                        OneResult(set_full_path(accounts, id, p, {}, FALSE),
                                  accounts')
      ]_vars

\* C27 witness: a cascade over two children or more has returned.
C27_Witness ==
    /\ last.op \in {"set_name", "set_parent", "set_full_path"}
    /\ last.err = "none"
    /\ Cardinality(ChildrenOf(accounts, last.id) \cap changed) >= 2

\* the accounts of table accs whose parent_path is no account's full_path
Orphans(accs) ==
    {j \in DOMAIN accs :
        /\ Len(split_path(accs[j].full_path)) > 1
        /\ parent_path(accs, j) \notin FullPaths(accs)}

\* the outcome o of a cascade on account id of table accs: when a write has
\* failed after the full_path of id was written, an account that was under
\* the former full_path of id is left with a parent_path that is no
\* account's full_path
LeavesOrphan(accs, id, o) ==
    (/\ o.err = "write_failed"
     /\ o.accs[id].full_path # accs[id].full_path)
        => \E j \in Orphans(o.accs) :
                IsUnder(accs[j].full_path, accs[id].full_path)

\* C28: on every store, a set_name or set_parent in which a write fails
\* after the full_path of the target was written keeps the writes made,
\* raises, and leaves an account that was under the target's former
\* full_path with a parent_path that is no account's full_path.
C28_PartialCascade ==
    \A id \in Handles :
        /\ \A n \in NameInputs :
            \A o \in set_name(accounts, id, n, TRUE) :
                LeavesOrphan(accounts, id, o)
        /\ \A parent \in Handles \cup {nullptr} :
            \A o \in set_parent(accounts, id, parent, TRUE) :
                LeavesOrphan(accounts, id, o)

\* the full paths of table accs are unique, every account of two segments
\* or more has a parent, and no parent and child are of different groups
WellFormed(accs) ==
    /\ \A i, j \in DOMAIN accs :
        accs[i].full_path = accs[j].full_path => i = j
    /\ Orphans(accs) = {}
    /\ \A i \in DOMAIN accs : \A j \in ParentsOf(accs, i) :
        compatible_parent_child_types(account_type(accs, j),
                                      account_type(accs, i))

\* C29: a set_name or set_parent on a store with unique full paths, no
\* orphan and compatible types either raises with no record written or
\* returns after the whole cascade.
C29_AllOrNothing ==
    [][(/\ last'.op \in {"set_name", "set_parent"}
        /\ WellFormed(accounts))
        => \/ last'.err = "none"
           \/ /\ last'.err \in {"invalid_name", "duplicate", "no_parent",
                                "incompatible", "empty_path", "no_record"}
              /\ changed' = {}]_vars

\* C30: a set_account_type call changes no record but that of its handle,
\* and of that record neither the id nor the full_path nor the
\* description; when it has stored a type of the other group, the account
\* has no parent and no child.
C30_SetTypeLocal ==
    [][last'.op = "set_account_type"
        => LET id == last'.id
           IN  /\ changed' \subseteq {id}
               /\ DOMAIN accounts' = DOMAIN accounts
               /\ accounts'[id].full_path = accounts[id].full_path
               /\ accounts'[id].description = accounts[id].description
               /\ last'.err # "none" => changed' = {}
               /\ (/\ last'.err = "none"
                   /\ (accounts'[id].account_type \in BalanceTypes)
                        # (accounts[id].account_type \in BalanceTypes))
                    => ParentsOf(accounts, id) \cup ChildrenOf(accounts, id)
                            = {}]_vars

\* the records of table accs whose full_path lies under that of record id
\* (the descendants of the account in the tree of paths)
DescendantsOf(accs, id) ==
    {j \in DOMAIN accs : IsUnder(accs[j].full_path, accs[id].full_path)}

\* C31: a set_name or set_parent on account a that returns leaves the
\* number of records, and the account_type, description, opening_date and
\* opening_balance of every record, as they were, and changes the
\* full_path of a and of a's descendants only.
C31_CascadeFrame ==
    [][(last'.op \in {"set_name", "set_parent"} /\ last'.err = "none")
        => LET a == last'.id
           IN  /\ DOMAIN accounts' = DOMAIN accounts
               /\ \A i \in DOMAIN accounts :
                    /\ accounts'[i].account_type = accounts[i].account_type
                    /\ accounts'[i].description = accounts[i].description
                    /\ accounts'[i].opening_date = accounts[i].opening_date
                    /\ accounts'[i].opening_balance
                            = accounts[i].opening_balance
                    /\ accounts'[i].full_path # accounts[i].full_path
                        => i \in {a} \cup DescendantsOf(accounts, a)
      ]_vars

\* C31 witness: a set_name or set_parent has returned after rewriting the
\* path of the account and of a descendant, and a third record is untouched
C31_Witness ==
    /\ last.op \in {"set_name", "set_parent"}
    /\ last.err = "none"
    /\ last.id \in changed
    /\ changed \ {last.id} # {}
    /\ DOMAIN accounts \ changed # {}

\* C32: set_name with the account's current name, set_parent with the
\* account's current parent (nullptr for an account of one segment) and
\* set_full_path with the account's current full_path return without an
\* error and leave every record as it was.
C32_SameValueNoOp ==
    [][last'.op \in {"set_name", "set_parent", "set_full_path"}
        => \A id \in Handles :
            (\/ SetName(id, name(accounts, id))
             \/ SetFullPath(id, full_path(accounts, id))
             \/ /\ Len(split_path(full_path(accounts, id))) <= 1
                /\ SetParent(id, nullptr)
             \/ \E parent \in ParentsOf(accounts, id) : SetParent(id, parent))
                => last'.err = "none" /\ accounts' = accounts
      ]_vars

\* ------------------------------------ several handles to the same record
\* an account object: its m_id and the account it was made for
Handle(m, account) == [m_id |-> m, account |-> account]

\* the ids of the handles that can stand for a parent in make_new
LiveIds == {handles[h].m_id : h \in DOMAIN handles} \cap DOMAIN accounts

\* which account each row of table accs holds after the call that is
\* being made: a new row holds the account this call creates
IdentityAfter(accs) ==
    [i \in DOMAIN accs |->
        IF i \in DOMAIN accounts THEN identity[i] ELSE calls + 1]

\* a call with outcome o that leaves the caller with the handles hs
HeldStep(op, id, o, hs) ==
    /\ Ready
    /\ calls < MaxCalls
    /\ WithinBounds(o.accs)
    /\ calls' = calls + 1
    /\ accounts' = o.accs
    /\ everCreated' = everCreated \cup ((DOMAIN o.accs) \ (DOMAIN accounts))
    /\ last' = Call(op, id, o.err)
    /\ m_id' = id
    /\ result' = {}
    /\ changed' = Changed(accounts, accounts')
    /\ handles' = hs
    /\ identity' = IdentityAfter(o.accs)
    /\ UNCHANGED <<m_db, pathVars, inputs, guiVars>>

\* account::make_new: std::make_shared<account>(db, new_id) is returned
\* when the record has been created
MakeNewHeld(nm, t, parent, description, od, ob) ==
    LET o == make_new(accounts, nm, t, parent, description,
                      Some(od), Some(ob))
        new_id == max_id(accounts) + 1
    IN  /\ t \in {asset, liability}
        /\ IF o.err = "none"
           THEN HeldStep("make_new", new_id, o,
                         Append(handles, Handle(new_id, calls + 1)))
           ELSE HeldStep("make_new", nullptr, o, handles)

\* account::find_existing: std::make_shared<account>(db, id) is returned
\* when a record has the path
FindExistingHeld(p) ==
    LET id == find_existing(accounts, p)
    IN  HeldStep("find_existing", id, Outcome(accounts, "none"),
                 IF id = nullptr THEN handles
                 ELSE Append(handles, Handle(id, identity[id])))

\* account::destroy on the handle h: m_id = 0 in that object once the row
\* is deleted; descendants() raises ("could not access retrieved record")
\* when no row has the m_id of the handle
DestroyHeld(h) ==
    LET id == handles[h].m_id
        o == IF id \in DOMAIN accounts THEN destroy(accounts, id)
             ELSE Outcome(accounts, "no_record")
    IN  HeldStep("destroy", id, o,
                 IF o.err = "none"
                 THEN [handles EXCEPT ![h] = Handle(0, handles[h].account)]
                 ELSE handles)

InitHandles ==
    /\ accounts = <<>>
    /\ everCreated = {}
    /\ last = Call("none", nullptr, "none")
    /\ calls = 0
    /\ result = {}
    /\ changed = {}
    /\ handles = <<>>
    /\ identity = <<>>
    /\ NoWindow
    /\ m_id = nullptr
    /\ m_db = "open"
    /\ arg = <<>>
    /\ stage = "idle"
    /\ validOut = FALSE
    /\ splitOut = <<>>
    /\ joinOut = <<>>
    /\ types = <<asset, asset>>
    /\ compatOut = FALSE
    /\ inputs \in {a \in Alphabets : a.id \in {"case", "empty"}}

NextHandles ==
    \/ \E nm \in NameInputs, t \in TypeInputs, parent \in LiveIds \cup {nullptr},
          d \in DescriptionInputs, od \in DateInputs, ob \in BalanceInputs :
            MakeNewHeld(nm, t, parent, d, od, ob)
    \/ \E p \in PathInputs : FindExistingHeld(p)
    \/ \E h \in DOMAIN handles : DestroyHeld(h)

SpecHandles == InitHandles /\ [][NextHandles]_vars

\* C33: on an open database every handle that is_ready stands for a stored
\* record, and that record holds the account the handle was created for or
\* looked up as.
C33_ReadyHandle ==
    \A h \in DOMAIN handles :
        (m_db = "open" /\ is_ready(handles[h].m_id))
            => /\ handles[h].m_id \in DOMAIN accounts
               /\ identity[handles[h].m_id] = handles[h].account

\* ------------------------------------------- the main window and its files
\* the document files the user can select in the file dialogs
Files == 1..MaxFiles

Display == "display"
Edit == "edit"

\* the slots that the signals documentBeforeClose, documentAfterClose and
\* documentAfterOpen of the main window run
Notification(signal) ==
    CASE signal = "documentBeforeClose" -> "notifyDocumentAboutToClose"
      [] signal = "documentAfterClose" -> "notifyDocumentClosed"
      [] signal = "documentAfterOpen" -> "notifyDocumentOpened"

\* where a file action goes on once the file has been chosen and checked
\* if it would never close a document
AfterChecks_open(doc) == "make"

\* where a file action goes on once the file has been chosen and checked:
\* `if (m_document != nullptr)` it closes the document first
AfterChecks(doc) == IF doc # NoDocument THEN "before_close" ELSE "make"

\* Document::makeSqliteDocument if it ran the initialisation every time
NeedsInit_always(exists) == TRUE

\* Document::makeSqliteDocument: `if (!QFileInfo(filePath).exists()) init =
\* true`, before the datastore is constructed
NeedsInit(exists) == ~exists

\* TextFieldLineEdit::setMode(m) on a widget in mode `mode`: the mode it
\* is in afterwards; a request for edit is ignored when canEdit() is false
setMode(mode, canEdit, m) ==
    IF m = Display THEN Display
    ELSE IF canEdit THEN Edit ELSE mode

\* the start of a file action on file f
Begin(nm, f, next) ==
    /\ pc = "idle"
    /\ action' = [name |-> nm, file |-> f,
                  wasOpen |-> m_document # NoDocument]
    /\ events' = <<>>
    /\ pc' = next

\* MainWindow::executeFileNewFile with the file f accepted in the dialog:
\* an existing file is removed, or the action ends with an error when it
\* cannot be removed
ExecuteFileNewFile(f) ==
    \/ /\ Begin("new", f, AfterChecks(m_document))
       /\ fileExists' = [fileExists EXCEPT ![f] = FALSE]
       /\ initialised' = [initialised EXCEPT ![f] = 0]
       /\ UNCHANGED <<m_document, connections, m_currentMode, editEnabled,
                      m_accountTreeModel>>
    \/ /\ fileExists[f]
       /\ Begin("new_not_removed", f, "idle")
       /\ UNCHANGED <<m_document, connections, fileExists, initialised,
                      m_currentMode, editEnabled, m_accountTreeModel>>

\* MainWindow::executeFileOpenFile with the file f chosen in the dialog:
\* the action ends with an error when the file does not exist
ExecuteFileOpenFile(f) ==
    /\ IF fileExists[f]
       THEN Begin("open", f, AfterChecks(m_document))
       ELSE Begin("open_no_file", f, "idle")
    /\ UNCHANGED <<m_document, connections, fileExists, initialised,
                   m_currentMode, editEnabled, m_accountTreeModel>>

\* MainWindow::executeFileCloseFile
ExecuteFileCloseFile ==
    /\ Begin("close", NoDocument,
             IF m_document # NoDocument THEN "before_close" ELSE "idle")
    /\ UNCHANGED <<m_document, connections, fileExists, initialised,
                   m_currentMode, editEnabled, m_accountTreeModel>>

\* documentBeforeClose(): notifyDocumentAboutToClose deletes the tree model
DocumentBeforeClose ==
    /\ pc = "before_close"
    /\ m_accountTreeModel' = FALSE
    /\ events' = Append(events, Notification("documentBeforeClose"))
    /\ pc' = "release"
    /\ UNCHANGED <<m_document, connections, fileExists, initialised, action,
                   m_currentMode, editEnabled>>

\* m_document = nullptr: ~Document destroys the datastore, which closes
\* the database and removes its connection (datastore::~datastore)
ReleaseDocument ==
    /\ pc = "release"
    /\ m_document' = NoDocument
    /\ connections' = connections \ {m_document}
    /\ events' = Append(events, "released")
    /\ pc' = "after_close"
    /\ UNCHANGED <<fileExists, initialised, action, m_currentMode,
                   editEnabled, m_accountTreeModel>>

\* documentAfterClose(): notifyDocumentClosed disables editing in both
\* widgets (setCanEdit(false))
DocumentAfterClose ==
    /\ pc = "after_close"
    /\ editEnabled' = [w \in Widgets |-> FALSE]
    /\ events' = Append(events, Notification("documentAfterClose"))
    /\ pc' = IF action.name = "close" THEN "idle" ELSE "make"
    /\ UNCHANGED <<m_document, connections, fileExists, initialised, action,
                   m_currentMode, m_accountTreeModel>>

\* m_document = Document::makeSqliteDocument(filePath): the datastore is
\* constructed, which opens (and creates) the file; when the database
\* could not be opened the datastore is destroyed and the action ends with
\* an error
MakeSqliteDocument ==
    /\ pc = "make"
    /\ LET f == action.file
           init == NeedsInit(fileExists[f])
       IN  \/ /\ connections' = connections \cup {f}
              /\ fileExists' = [fileExists EXCEPT ![f] = TRUE]
              /\ initialised' =
                    [initialised EXCEPT
                        ![f] = IF init THEN @ + 1 ELSE @]
              /\ m_document' = f
              /\ events' = Append(events, "constructed")
              /\ pc' = "after_open"
           \/ /\ events' = Append(events, "not_ready")
              /\ pc' = "idle"
              /\ UNCHANGED <<m_document, connections, fileExists,
                             initialised>>
    /\ UNCHANGED <<action, m_currentMode, editEnabled, m_accountTreeModel>>

\* documentAfterOpen(): notifyDocumentOpened enables editing in both
\* widgets and makes the tree model
DocumentAfterOpen ==
    /\ pc = "after_open"
    /\ editEnabled' = [w \in Widgets |-> TRUE]
    /\ m_accountTreeModel' = TRUE
    /\ events' = Append(events, Notification("documentAfterOpen"))
    /\ pc' = "idle"
    /\ UNCHANGED <<m_document, connections, fileExists, initialised, action,
                   m_currentMode>>

\* a call on the widget w that leaves it in mode m with canEdit() = c
WidgetStep(w, m, c) ==
    /\ pc = "idle"
    /\ m_currentMode' = [m_currentMode EXCEPT ![w] = m]
    /\ editEnabled' = [editEnabled EXCEPT ![w] = c]
    /\ UNCHANGED <<m_document, connections, fileExists, initialised, pc,
                   action, events, m_accountTreeModel>>

\* TextFieldLineEdit::setMode
SetMode(w, m) ==
    WidgetStep(w, setMode(m_currentMode[w], editEnabled[w], m),
               editEnabled[w])

\* TextFieldLineEdit::setCanEdit
SetCanEdit(w, c) == WidgetStep(w, m_currentMode[w], c)

\* TextFieldLineEdit::executeStartEditAction (the Edit button, a double
\* click in the line edit)
ExecuteStartEditAction(w) ==
    WidgetStep(w,
               IF editEnabled[w]
               THEN setMode(m_currentMode[w], editEnabled[w], Edit)
               ELSE m_currentMode[w],
               editEnabled[w])

\* TextFieldLineEdit::executeSaveEditAction (the Save button, Return)
ExecuteSaveEditAction(w) ==
    WidgetStep(w, setMode(m_currentMode[w], editEnabled[w], Display),
               editEnabled[w])

\* TextFieldLineEdit::executeCancelEditAction (the Cancel button)
ExecuteCancelEditAction(w) ==
    WidgetStep(w, setMode(m_currentMode[w], editEnabled[w], Display),
               editEnabled[w])

\* the main window after MainWindow::setupUi, with document files that an
\* earlier run has created (and initialised) or that do not exist
InitGui ==
    /\ accounts = <<>>
    /\ everCreated = {}
    /\ last = Call("none", nullptr, "none")
    /\ calls = 0
    /\ result = {}
    /\ changed = {}
    /\ handles = <<>>
    /\ identity = <<>>
    /\ m_id = nullptr
    /\ m_db = "none"
    /\ arg = <<>>
    /\ stage = "idle"
    /\ validOut = FALSE
    /\ splitOut = <<>>
    /\ joinOut = <<>>
    /\ types = <<asset, asset>>
    /\ compatOut = FALSE
    /\ inputs \in {a \in Alphabets : a.id = "case"}
    /\ m_document = NoDocument
    /\ connections = {}
    /\ fileExists \in [Files -> BOOLEAN]
    /\ initialised = [f \in Files |-> IF fileExists[f] THEN 1 ELSE 0]
    /\ pc = "idle"
    /\ action = [name |-> "none", file |-> NoDocument, wasOpen |-> FALSE]
    /\ events = <<>>
    /\ m_currentMode = [w \in Widgets |-> Display]
    /\ editEnabled = [w \in Widgets |-> FALSE]
    /\ m_accountTreeModel = FALSE

GuiStep(A) == A /\ UNCHANGED <<storeVars, handleVars, pathVars, inputs>>

NextGui ==
    \/ \E f \in Files : GuiStep(ExecuteFileNewFile(f))
    \/ \E f \in Files : GuiStep(ExecuteFileOpenFile(f))
    \/ GuiStep(ExecuteFileCloseFile)
    \/ GuiStep(DocumentBeforeClose)
    \/ GuiStep(ReleaseDocument)
    \/ GuiStep(DocumentAfterClose)
    \/ GuiStep(MakeSqliteDocument)
    \/ GuiStep(DocumentAfterOpen)
    \/ \E w \in Widgets, m \in {Display, Edit} : GuiStep(SetMode(w, m))
    \/ \E w \in Widgets, c \in BOOLEAN : GuiStep(SetCanEdit(w, c))
    \/ \E w \in Widgets : GuiStep(ExecuteStartEditAction(w))
    \/ \E w \in Widgets : GuiStep(ExecuteSaveEditAction(w))
    \/ \E w \in Widgets : GuiStep(ExecuteCancelEditAction(w))

SpecGui == InitGui /\ [][NextGui]_vars

\* what a file action does to a document that is open, in this order
ClosesFirst ==
    <<Notification("documentBeforeClose"), "released",
      Notification("documentAfterClose")>>

\* C34: at no point are two documents open, and a New File, Open File or
\* Close File action that starts with a document open has run the
\* about-to-close notification, released the document and its connection
\* and run the closed notification, in this order, before it constructs
\* the datastore of the new document (for Close File, before it ends).
C34_CloseBeforeOpen ==
    /\ Cardinality(connections) <= 1
    /\ m_document = NoDocument => connections = {}
    /\ pc = "make" => m_document = NoDocument /\ connections = {}
    /\ (/\ action.wasOpen
        /\ \/ pc \in {"make", "after_open"}
           \/ \E i \in DOMAIN events : events[i] = "constructed"
           \/ pc = "idle" /\ action.name = "close")
            => /\ Len(events) >= 3
               /\ SubSeq(events, 1, 3) = ClosesFirst

\* C34 witness: an action that started with a document open has closed it
\* and constructed the datastore of the next document
C34_Witness ==
    /\ action.wasOpen
    /\ pc = "after_open"
    /\ events = ClosesFirst \o <<"constructed">>

\* C35: makeSqliteDocument runs datastore::initialise when and only when
\* the file did not exist before the datastore was opened, and every
\* document file that exists has been initialised exactly once: when it
\* was created, never when it is opened again.
C35_InitialisedOnce ==
    [][/\ (pc = "make" /\ pc' = "after_open")
            => LET f == action.file
               IN  IF fileExists[f]
                   THEN initialised'[f] = initialised[f]
                   ELSE initialised'[f] = initialised[f] + 1
       /\ \A f \in Files : fileExists'[f] => initialised'[f] = 1
      ]_vars

\* C35 witness: a file that this run has created and initialised has been
\* closed and is open again
C35_Witness ==
    /\ action.name = "open"
    /\ pc = "after_open"
    /\ action.wasOpen
    /\ initialised[action.file] = 1
    /\ \E f \in Files : ~fileExists[f]

\* C36: a widget is in edit mode only while canEdit() is true.
C36_EditOnlyWhenEnabled ==
    \A w \in Widgets : m_currentMode[w] = Edit => editEnabled[w]

\* C37: make_new gives the account it creates the id 1 on an empty table
\* and the largest stored id plus one otherwise (max_id + 1), so the id is
\* at least 1 and the handle it returns is ready.
C37_NewIdReady ==
    [][(last'.op = "make_new" /\ last'.err = "none")
        => LET id == last'.id
           IN  /\ id >= 1
               /\ DOMAIN accounts' = DOMAIN accounts \cup {id}
               /\ \A j \in DOMAIN accounts : j < id
               /\ IF DOMAIN accounts = {} THEN id = 1
                  ELSE id - 1 \in DOMAIN accounts
               /\ m_id' = id
               /\ is_ready(m_id')
      ]_vars

\* C37 witness: make_new has created an account on a table whose ids do
\* not start at 1 any more
C37_Witness ==
    /\ last.op = "make_new"
    /\ last.err = "none"
    /\ last.id >= 2
    /\ 1 \notin DOMAIN accounts

====
